---- MODULE Spec2Model ----
(***************************************************************************)
(* PTYManager (src/src/core/pty-manager.ts): the active set of pseudo-     *)
(* terminal handles and the operations createPTY, destroyPTY,              *)
(* resizeAllPTYs, cleanup, together with the exit/error observers the      *)
(* manager attaches to every handle.  The Process Bridge (node-pty, the    *)
(* file system, the host process) is the environment: every answer it      *)
(* gives and every failure it raises is an input of the action.            *)
(***************************************************************************)
EXTENDS Integers, Sequences, FiniteSets, TLC

\* ------------------------------------------------------------------ bounds
MaxHandles == 2

Handles == 1..MaxHandles
\* a handle object the manager never created (passed to destroyPTY by a caller)
ForeignHandles == {0}

VARIABLES
    activePTYs,   \* Set<IPty>, in insertion order (a JS Set iterates so)
    spawned,      \* number of handles the bridge has spawned (handles 1..spawned)
    listeners,    \* per handle: the events the manager's observers are attached to
    proc,         \* per handle: "none" | "running" | "exited"
    kills,        \* per handle: number of pty.kill() requests
    created,      \* history: handles createPTY added to the active set
    destroyed,    \* history: handles destroyPTY or cleanup removed
    reported,     \* history: handles whose exit/error observer was invoked
    returnedPTYs, \* history: handles createPTY returned to its caller
    last,         \* the last operation: inputs, bridge calls, outcome
    settingsProvider, \* <<>> when null, <<settings>> for a provider that
                      \* returns these settings when it is called
    settingsSeen, \* history: what the provider returned to the last resolution
    shellCall,    \* the last shell-resolver call: inputs and outcome
    probe         \* the findAvailableShell call in progress

ptyVars == <<activePTYs, spawned, listeners, proc, kills,
             created, destroyed, reported, returnedPTYs, last>>

shellVars == <<settingsProvider, settingsSeen, shellCall, probe>>

vars == <<activePTYs, spawned, listeners, proc, kills,
          created, destroyed, reported, returnedPTYs, last,
          settingsProvider, settingsSeen, shellCall, probe>>

\* ------------------------------------------------------------ input domains
Platforms == {"win32", "linux"}
HomeEnvs == {<<>>, <<"">>, <<"/home/user">>}
Shells == {"/bin/zsh"}
Cwds == {"/vault/notes"}
TerminalCols == {80}
TerminalRows == {24}
ResizeCols == {120}
ResizeRows == {40}

PTYOptionsSet ==
    [shell : Shells, args : {<<>>}, cwd : Cwds, env : {"utf8Env"},
     cols : TerminalCols, rows : TerminalRows]

\* What the bridge answers during one createPTY call.
\*   nodePty    : getNodePTY() returns the module (TRUE) or null (FALSE)
\*   shellCheck : validateShellSync returns true / returns false / throws
\*   cwdExists  : fs.existsSync(options.cwd)
\*   home       : process.env.HOME, <<>> when unset, <<dir>> when set
\*   platform   : getProcess().platform
\*   spawn      : nodePty.spawn returns a handle / throws an Error / throws a
\*                TerminalPluginError
\*   attach     : pty.on succeeds / throws on "error" / throws on "exit"
\* An answer the call never reads is fixed to one value, so that two calls
\* differ only in what the code saw.
BridgeAnswers ==
    LET All == [nodePty : BOOLEAN, shellCheck : {"valid", "invalid", "throws"},
                cwdExists : BOOLEAN, home : HomeEnvs, platform : Platforms,
                spawn : {"ok", "error", "typedError"},
                attach : {"ok", "errorThrows", "exitThrows"}]
    IN { b \in All :
           /\ (~b.nodePty => b.shellCheck = "valid")
           /\ (b.shellCheck # "valid" => b.cwdExists)
           /\ (b.cwdExists => b.home = <<>>)
           /\ (~b.nodePty \/ b.shellCheck # "valid" => b.platform = "linux")
           /\ (~b.nodePty \/ b.shellCheck # "valid" => b.spawn = "ok")
           /\ (~b.nodePty \/ b.shellCheck # "valid" \/ b.spawn # "ok"
                 => b.attach = "ok") }

NoAnswers ==
    [nodePty |-> TRUE, shellCheck |-> "valid", cwdExists |-> TRUE,
     home |-> <<>>, platform |-> "linux", spawn |-> "ok", attach |-> "ok"]

NoOptions ==
    [shell |-> "", args |-> <<>>, cwd |-> "", env |-> "", cols |-> 0, rows |-> 0]

\* ------------------------------------------------------------------ errors
\* TerminalErrorType (src/src/types/errors.ts:4-11)
PTY_CREATION_FAILED == "PTY_CREATION_FAILED"
SHELL_NOT_FOUND == "SHELL_NOT_FOUND"
ELECTRON_NOT_AVAILABLE == "ELECTRON_NOT_AVAILABLE"
NODE_PTY_NOT_AVAILABLE == "NODE_PTY_NOT_AVAILABLE"

\* a plain Error raised by the bridge; cause names the failing bridge call
PlainError(cause) == [name |-> "Error", cause |-> cause]

\* new TerminalPluginError(type, message, originalError?, context?):
\* originalError and context are <<>> when not given, <<value>> when given.
TerminalPluginError(type, originalError, context) ==
    [name |-> "TerminalPluginError", type |-> type,
     originalError |-> originalError, context |-> context]

\* ----------------------------------------------------------- the active set
SetHas(s, pty) == \E i \in 1..Len(s) : s[i] = pty

\* faulty variant: a new entry is put in front of the older ones
SetAddFirst(s, pty) == IF SetHas(s, pty) THEN s ELSE <<pty>> \o s

\* Set.prototype.add: a new entry comes last in the iteration order
SetAdd(s, pty) == IF SetHas(s, pty) THEN s ELSE Append(s, pty)

SetDelete(s, pty) == SelectSeq(s, LAMBDA x : x # pty)

SetOf(s) == { s[i] : i \in 1..Len(s) }

getActivePTYCount == Len(activePTYs)

\* ---------------------------------------------------------------- createPTY
\* The manager-and-bridge state one operation works on.
Machine ==
    [activePTYs |-> activePTYs, spawned |-> spawned, listeners |-> listeners,
     proc |-> proc, kills |-> kills,
     log |-> <<>>, spawnReq |-> <<>>, atKill |-> <<>>]

\* one bridge call or set mutation, appended to the operation's log
Logged(m, call, pty) == [m EXCEPT !.log = Append(@, <<call, pty>>)]

\* faulty variant: the null check on getNodePTY() is skipped
NodePtyMissingSkipped(nodePty) == FALSE

NodePtyMissing(nodePty) == ~nodePty

\* faulty variant: a throwing bridge check counts as a valid shell
validateShellPathThrowIsValid(shellCheck) == shellCheck # "invalid"

validateShellPath(shellCheck) ==
    IF shellCheck = "throws" THEN FALSE ELSE shellCheck = "valid"

HomeFallback(home) == IF home # <<>> /\ home[1] # "" THEN home[1] ELSE "/"

\* faulty variant: a missing cwd is passed on as it is
EffectiveCwdKept(cwd, cwdExists, home) == cwd

EffectiveCwd(cwd, cwdExists, home) ==
    IF ~cwdExists THEN HomeFallback(home) ELSE cwd

\* faulty variant: every platform counts as Windows
IsWindowsAlways(plat) == TRUE

IsWindows(plat) == plat = "win32"

SpawnOptions(options, plat) ==
    LET base == [name |-> "xterm-256color", cols |-> options.cols,
                 rows |-> options.rows, cwd |-> options.cwd,
                 env |-> options.env, encoding |-> "utf8"]
    IN IF IsWindows(plat) THEN base @@ [useConpty |-> TRUE] ELSE base

\* faulty variant: no caught error is recognised as already typed
IsTerminalPluginErrorNever(error) == FALSE

IsTerminalPluginError(error) == error.name = "TerminalPluginError"

\* faulty variant: the wrapped error carries neither cause nor context
CatchCreateBare(error, options) ==
    IF IsTerminalPluginError(error)
    THEN error
    ELSE TerminalPluginError(PTY_CREATION_FAILED, <<>>, <<>>)

\* the catch block of createPTY: what reaches the caller for a caught error
CatchCreate(error, options) ==
    IF IsTerminalPluginError(error)
    THEN error
    ELSE TerminalPluginError(PTY_CREATION_FAILED, <<error>>,
                             <<[options |-> options]>>)

Thrown(m, error, options) ==
    [m |-> m, ret |-> <<>>, thrown |-> <<CatchCreate(error, options)>>,
     options |-> options]

Returned(m, pty, options) ==
    [m |-> m, ret |-> <<pty>>, thrown |-> <<>>, options |-> options]

SpawnFailure(spawn) ==
    IF spawn = "typedError"
    THEN TerminalPluginError(ELECTRON_NOT_AVAILABLE, <<>>, <<>>)
    ELSE PlainError("spawn")

\* faulty variant: the spawned handle is not added to the active set
TrackPTYForgotten(m, pty) == Logged(m, "add", pty)

TrackPTY(m, pty) ==
    Logged([m EXCEPT !.activePTYs = SetAdd(@, pty)], "add", pty)

AttachObserver(m, pty, event) ==
    Logged([m EXCEPT !.listeners[pty] = @ \cup {event}], "on:" \o event, pty)

createPTYRun(m0, options, b) ==
    LET m1 == Logged(m0, "getNodePTY", 0)
    IN
    IF NodePtyMissing(b.nodePty)
    THEN Thrown(m1, TerminalPluginError(NODE_PTY_NOT_AVAILABLE, <<>>, <<>>), options)
    ELSE
    LET m2 == Logged(m1, "validateShellSync", 0)
    IN
    IF ~validateShellPath(b.shellCheck)
    THEN Thrown(m2, TerminalPluginError(SHELL_NOT_FOUND, <<>>, <<>>), options)
    ELSE
    LET m3 == Logged(m2, "existsSync", 0)
        opts == [options EXCEPT !.cwd = EffectiveCwd(options.cwd, b.cwdExists, b.home)]
        m4 == Logged(m3, "getProcess", 0)
        req == [shell |-> opts.shell, args |-> opts.args,
                options |-> SpawnOptions(opts, b.platform)]
        m5 == [Logged(m4, "spawn", 0) EXCEPT !.spawnReq = Append(@, req)]
    IN
    IF b.spawn # "ok"
    THEN Thrown(m5, SpawnFailure(b.spawn), opts)
    ELSE
    LET pty == m5.spawned + 1
        m6 == [m5 EXCEPT !.spawned = pty, !.proc[pty] = "running"]
        m7 == TrackPTY(m6, pty)
    IN
    IF b.attach = "errorThrows"
    THEN Thrown(Logged(m7, "on:error", pty), PlainError("on"), opts)
    ELSE
    LET m8 == AttachObserver(m7, pty, "error")
    IN
    IF b.attach = "exitThrows"
    THEN Thrown(Logged(m8, "on:exit", pty), PlainError("on"), opts)
    ELSE Returned(AttachObserver(m8, pty, "exit"), pty, opts)

\* the handles an operation added to the active set
AddInvoked(log) ==
    { log[i][2] : i \in { j \in 1..Len(log) : log[j][1] = "add" } }

\* ------------------------------------------------------------- the last call
Call(op, pty, m, thrown) ==
    [op |-> op, pty |-> pty, pre |-> activePTYs, thrown |-> thrown,
     log |-> m.log, spawnReq |-> m.spawnReq, atKill |-> m.atKill,
     requested |-> NoOptions, options |-> NoOptions, answers |-> NoAnswers,
     killThrows |-> {}, releaseThrows |-> {}, resizeThrows |-> {},
     cols |-> 0, rows |-> 0]

Install(m) ==
    /\ activePTYs' = m.activePTYs
    /\ spawned' = m.spawned
    /\ listeners' = m.listeners
    /\ proc' = m.proc
    /\ kills' = m.kills

createPTY ==
    /\ spawned < MaxHandles
    /\ \E options \in PTYOptionsSet, b \in BridgeAnswers :
         LET r == createPTYRun(Machine, options, b)
             pty == IF r.ret # <<>> THEN r.ret[1] ELSE 0
         IN /\ Install(r.m)
            /\ created' = created \cup AddInvoked(r.m.log)
            /\ returnedPTYs' = returnedPTYs \cup SetOf(r.ret)
            /\ last' = [Call("createPTY", pty, r.m, r.thrown) EXCEPT
                          !.requested = options, !.options = r.options,
                          !.answers = b]
    /\ UNCHANGED <<destroyed, reported>>
    /\ UNCHANGED shellVars

\* --------------------------------------------------------------- destroyPTY
\* faulty variant: the kill failure is thrown on to the outer catch
KillRethrown(m, error) == [m |-> m, thrown |-> <<error>>]

\* the inner catch around pty.kill(): the failure is logged, nothing is thrown
KillCaught(m, error) == [m |-> m, thrown |-> <<>>]

\* pty.kill(); atKill keeps the active set as it is when kill is requested
KillPTY(m, pty, killThrows) ==
    LET m1 == Logged([m EXCEPT !.kills[pty] = @ + 1,
                               !.atKill = Append(@, <<pty, m.activePTYs>>)],
                     "kill", pty)
    IN IF pty \in killThrows
       THEN KillCaught(m1, PlainError("kill"))
       ELSE [m |-> m1, thrown |-> <<>>]

\* the outer catch of destroyPTY: the failure is wrapped and thrown
CatchDestroy(error) ==
    TerminalPluginError(PTY_CREATION_FAILED, <<error>>, <<>>)

ReleaseObservers(m, pty, releaseThrows) ==
    LET m1 == Logged(m, "removeAllListeners", pty)
    IN IF pty \in releaseThrows
       THEN [m |-> m1, thrown |-> <<CatchDestroy(PlainError("removeAllListeners"))>>]
       ELSE [m |-> [m1 EXCEPT !.listeners[pty] = {}], thrown |-> <<>>]

\* faulty variant: every handle ever spawned counts as tracked
IsTrackedOnceSpawned(m, pty) == pty \in 1..m.spawned

\* this.activePTYs.has(pty)
IsTracked(m, pty) == SetHas(m.activePTYs, pty)

\* faulty variant: termination is requested before the handle is removed
destroyPTYRunKillFirst(m0, pty, killThrows, releaseThrows) ==
    LET m1 == Logged(m0, "has", pty)
    IN
    IF ~IsTracked(m1, pty)
    THEN [m |-> m1, thrown |-> <<>>]
    ELSE
    LET k == KillPTY(m1, pty, killThrows)
        m2 == Logged([k.m EXCEPT !.activePTYs = SetDelete(@, pty)], "delete", pty)
    IN
    IF k.thrown # <<>>
    THEN [m |-> m2, thrown |-> <<CatchDestroy(k.thrown[1])>>]
    ELSE ReleaseObservers(m2, pty, releaseThrows)

destroyPTYRun(m0, pty, killThrows, releaseThrows) ==
    LET m1 == Logged(m0, "has", pty)
    IN
    IF ~IsTracked(m1, pty)
    THEN [m |-> m1, thrown |-> <<>>]
    ELSE
    LET m2 == Logged([m1 EXCEPT !.activePTYs = SetDelete(@, pty)], "delete", pty)
        k == KillPTY(m2, pty, killThrows)
    IN
    IF k.thrown # <<>>
    THEN [m |-> k.m, thrown |-> <<CatchDestroy(k.thrown[1])>>]
    ELSE ReleaseObservers(k.m, pty, releaseThrows)

\* the handles an operation invoked destroyPTY on
DestroyInvoked(log) ==
    { log[i][2] : i \in { j \in 1..Len(log) : log[j][1] = "has" } }

destroyPTY ==
    /\ \E pty \in returnedPTYs \cup ForeignHandles,
          killThrows \in BOOLEAN, releaseThrows \in BOOLEAN :
         LET kt == IF killThrows THEN {pty} ELSE {}
             rt == IF releaseThrows THEN {pty} ELSE {}
             r == destroyPTYRun(Machine, pty, kt, rt)
         IN /\ (~SetHas(activePTYs, pty) => ~killThrows /\ ~releaseThrows)
            /\ Install(r.m)
            /\ destroyed' = destroyed \cup (DestroyInvoked(r.m.log) \cap created)
            /\ last' = [Call("destroyPTY", pty, r.m, r.thrown) EXCEPT
                          !.killThrows = kt, !.releaseThrows = rt]
    /\ UNCHANGED <<created, reported, returnedPTYs>>
    /\ UNCHANGED shellVars

\* ------------------------------------------------------------ resizeAllPTYs
\* faulty variant: the resize failure is thrown on
ResizeRethrown(m, error) == [m |-> m, thrown |-> <<error>>]

\* the catch inside the forEach callback: the failure is logged, not thrown
ResizeCaught(m, error) == [m |-> m, thrown |-> <<>>]

ResizePTY(m, pty, cols, rows, resizeThrows) ==
    LET m1 == Logged(m, "resize", pty)
    IN IF pty \in resizeThrows
       THEN ResizeCaught(m1, PlainError("resize"))
       ELSE [m |-> m1, thrown |-> <<>>]

\* activePTYs.forEach: the entries in insertion order; a throwing callback
\* ends the iteration
RECURSIVE ResizeEach(_, _, _, _, _, _)
ResizeEach(m, ptys, i, cols, rows, resizeThrows) ==
    IF i > Len(ptys)
    THEN [m |-> m, thrown |-> <<>>]
    ELSE LET r == ResizePTY(m, ptys[i], cols, rows, resizeThrows)
         IN IF r.thrown # <<>>
            THEN r
            ELSE ResizeEach(r.m, ptys, i + 1, cols, rows, resizeThrows)

resizeAllPTYsRun(m, cols, rows, resizeThrows) ==
    ResizeEach(m, m.activePTYs, 1, cols, rows, resizeThrows)

resizeAllPTYs ==
    /\ \E cols \in ResizeCols, rows \in ResizeRows,
          resizeThrows \in SUBSET SetOf(activePTYs) :
         LET r == resizeAllPTYsRun(Machine, cols, rows, resizeThrows)
         IN /\ Install(r.m)
            /\ last' = [Call("resizeAllPTYs", 0, r.m, r.thrown) EXCEPT
                          !.resizeThrows = resizeThrows,
                          !.cols = cols, !.rows = rows]
    /\ UNCHANGED <<created, destroyed, reported, returnedPTYs>>
    /\ UNCHANGED shellVars

\* ------------------------------------------------------------------ cleanup
\* ptysToDestroy.forEach(destroyPTY): a throwing destroyPTY ends the iteration
RECURSIVE DestroyEach(_, _, _, _, _)
DestroyEach(m, ptys, i, killThrows, releaseThrows) ==
    IF i > Len(ptys)
    THEN [m |-> m, thrown |-> <<>>]
    ELSE LET r == destroyPTYRun(m, ptys[i], killThrows, releaseThrows)
         IN IF r.thrown # <<>>
            THEN r
            ELSE DestroyEach(r.m, ptys, i + 1, killThrows, releaseThrows)

ClearAll(m) == Logged([m EXCEPT !.activePTYs = <<>>], "clear", 0)

cleanupRun(m, killThrows, releaseThrows) ==
    LET ptysToDestroy == m.activePTYs
        r == DestroyEach(m, ptysToDestroy, 1, killThrows, releaseThrows)
    IN IF r.thrown # <<>>
       THEN r
       ELSE [m |-> ClearAll(r.m), thrown |-> <<>>]

cleanup ==
    /\ \E killThrows \in SUBSET SetOf(activePTYs),
          releaseThrows \in SUBSET SetOf(activePTYs) :
         LET r == cleanupRun(Machine, killThrows, releaseThrows)
             reached == DestroyInvoked(r.m.log)
             cleared == IF r.thrown = <<>> THEN SetOf(activePTYs) ELSE {}
         IN /\ killThrows \subseteq reached
            /\ releaseThrows \subseteq reached
            /\ Install(r.m)
            /\ destroyed' = destroyed \cup ((reached \cup cleared) \cap created)
            /\ last' = [Call("cleanup", 0, r.m, r.thrown) EXCEPT
                          !.killThrows = killThrows,
                          !.releaseThrows = releaseThrows]
    /\ UNCHANGED <<created, reported, returnedPTYs>>
    /\ UNCHANGED shellVars

\* ------------------------------------------- exit and error notifications
\* faulty variant: the error observer empties the active set
ErrorObserverClearsAll(m, pty) ==
    Logged([m EXCEPT !.activePTYs = <<>>], "delete", pty)

\* pty.on("error", ...) callback
ErrorObserver(m, pty) ==
    Logged([m EXCEPT !.activePTYs = SetDelete(@, pty)], "delete", pty)

\* faulty variant: the exit observer leaves the handle in the active set
ExitObserverKeeps(m, pty) == Logged(m, "delete", pty)

\* pty.on("exit", ...) callback
ExitObserver(m, pty) ==
    Logged([m EXCEPT !.activePTYs = SetDelete(@, pty)], "delete", pty)

\* the bridge emits an event on a handle: the attached observers run
Emit(m, pty, event) ==
    IF event \notin m.listeners[pty]
    THEN m
    ELSE LET m1 == Logged(m, "observer:" \o event, pty)
         IN IF event = "exit" THEN ExitObserver(m1, pty) ELSE ErrorObserver(m1, pty)

\* the process of a handle ends: the bridge pushes "exit"
ptyExit ==
    /\ \E pty \in 1..spawned :
         /\ proc[pty] = "running"
         /\ LET m == Emit([Machine EXCEPT !.proc[pty] = "exited"], pty, "exit")
            IN /\ Install(m)
               /\ reported' = IF "exit" \in listeners[pty]
                              THEN reported \cup {pty} ELSE reported
               /\ last' = Call("exit", pty, m, <<>>)
    /\ UNCHANGED <<created, destroyed, returnedPTYs>>
    /\ UNCHANGED shellVars

\* the bridge pushes "error" for a handle whose process is still running
ptyError ==
    /\ \E pty \in 1..spawned :
         /\ proc[pty] = "running"
         /\ "error" \in listeners[pty]
         /\ LET m == Emit(Machine, pty, "error")
            IN /\ Install(m)
               /\ reported' = reported \cup {pty}
               /\ last' = Call("error", pty, m, <<>>)
    /\ UNCHANGED <<created, destroyed, returnedPTYs>>
    /\ UNCHANGED shellVars

\* ------------------------------------------------------------ shell resolver
\* What the settings provider callback may return: null (isNull) or a
\* PTYSettingsProvider with defaultShell and shellArgs.
SettingsValues ==
    { [isNull |-> TRUE, defaultShell |-> "", shellArgs |-> <<>>],
      [isNull |-> FALSE, defaultShell |-> "", shellArgs |-> <<"-i">>],
      [isNull |-> FALSE, defaultShell |-> "/usr/bin/fish", shellArgs |-> <<"-l">>],
      [isNull |-> FALSE, defaultShell |-> "/opt/pwsh", shellArgs |-> <<>>] }

ShellPlatforms == {"win32", "darwin", "linux", "freebsd"}

\* What the bridge answers during one shell resolution.
\*   syncCheck     : validateShellSync(settings.defaultShell) returns true /
\*                   returns false / throws
\*   bridgeDefault : electronBridge.getDefaultShell() returns / throws
\*   platform      : getProcess().platform
ShellAnswers ==
    [syncCheck : {"valid", "invalid", "throws"},
     bridgeDefault : {"ok", "throws"}, platform : ShellPlatforms]

NoShellAnswers ==
    [syncCheck |-> "valid", bridgeDefault |-> "ok", platform |-> "linux"]

\* faulty variant: the settings an earlier resolution saw are used again
ReadSettingsCached(provider, seen) == IF seen # <<>> THEN seen ELSE provider

\* this.settingsProvider?.(): the provider is called on every resolution;
\* what an earlier call saw is kept nowhere
ReadSettings(provider, seen) == provider

\* settings?.defaultShell when it is truthy
ConfiguredShell(settings) ==
    IF settings = <<>> THEN <<>>
    ELSE IF settings[1].isNull \/ settings[1].defaultShell = "" THEN <<>>
    ELSE <<settings[1].defaultShell>>

\* settings?.shellArgs ?? []
ConfiguredArgs(settings) ==
    IF settings = <<>> THEN <<>>
    ELSE IF settings[1].isNull THEN <<>>
    ELSE settings[1].shellArgs

\* what electronBridge.getDefaultShell() returns when it does not throw
BridgeDefaultShell == "bridge:default-shell"

StaticDefaultShell(plat) ==
    CASE plat = "win32" -> "cmd.exe"
      [] plat = "darwin" -> "/bin/zsh"
      [] plat = "linux" -> "/bin/bash"
      [] OTHER -> "/bin/sh"

getSystemDefaultShell(a) ==
    IF a.bridgeDefault = "throws"
    THEN StaticDefaultShell(a.platform)
    ELSE BridgeDefaultShell

\* the bridge's synchronous check: a result, or an error thrown
ValidateShellSync(check) ==
    IF check = "throws"
    THEN [ret |-> <<>>, thrown |-> <<PlainError("validateShellSync")>>]
    ELSE [ret |-> <<check = "valid">>, thrown |-> <<>>]

getDefaultShellRun(settings, a) ==
    LET configured == ConfiguredShell(settings)
        checked == ValidateShellSync(a.syncCheck)
    IN IF configured = <<>>
       THEN [ret |-> <<getSystemDefaultShell(a)>>, thrown |-> <<>>]
       ELSE IF checked.thrown # <<>>
       THEN [ret |-> <<>>, thrown |-> checked.thrown]
       ELSE IF checked.ret[1]
       THEN [ret |-> configured, thrown |-> <<>>]
       ELSE [ret |-> <<getSystemDefaultShell(a)>>, thrown |-> <<>>]

\* faulty variant: the failure of the bridge's check is thrown on
ShellCheckRethrown(error) == [ret |-> <<>>, thrown |-> <<error>>]

\* the catch of validateShellPath: the failure is logged, false is returned
ShellCheckCaught(error) == [ret |-> <<FALSE>>, thrown |-> <<>>]

validateShellPathRun(check) ==
    LET r == ValidateShellSync(check)
    IN IF r.thrown # <<>> THEN ShellCheckCaught(r.thrown[1]) ELSE r

\* ------------------------------------------------------ environment builder
LocaleVars == {"LANG", "LC_ALL", "LC_CTYPE"}
EnvValues == {"", "en_US.UTF-8"}
UTF8Default == "zh_CN.UTF-8"

\* getEnvironmentVariables(): PATH, and any of the locale variables
BaseEnvs ==
    { e @@ [n \in {"PATH"} |-> "/usr/bin"] :
        e \in UNION { [D -> EnvValues] : D \in SUBSET LocaleVars } }

\* faulty variant: the default replaces whatever the base environment holds
OrDefaultForced(env, name) == UTF8Default

\* baseEnv.NAME || "zh_CN.UTF-8": undefined and "" both give the default
OrDefault(env, name) ==
    IF name \in DOMAIN env /\ env[name] # "" THEN env[name] ELSE UTF8Default

BuildEnv(baseEnv, plat) ==
    LET utf8Env == [n \in LocaleVars |-> OrDefault(baseEnv, n)] @@ baseEnv
    IN IF plat = "win32"
       THEN [n \in {"CHCP", "PYTHONIOENCODING"} |->
               IF n = "CHCP" THEN "65001" ELSE "utf-8"] @@ utf8Env
       ELSE utf8Env

getDefaultOptionsRun(provider, seen, a, baseEnv) ==
    LET utf8Env == BuildEnv(baseEnv, a.platform)
        shellArgs == ConfiguredArgs(ReadSettings(provider, seen))
        sh == getDefaultShellRun(ReadSettings(provider, seen), a)
    IN IF sh.thrown # <<>>
       THEN sh
       ELSE [ret |-> <<[shell |-> sh.ret[1], args |-> shellArgs,
                        cwd |-> "bridge:cwd", env |-> utf8Env,
                        cols |-> "DEFAULT_TERMINAL_DIMENSIONS.cols",
                        rows |-> "DEFAULT_TERMINAL_DIMENSIONS.rows"]>>,
             thrown |-> <<>>]

\* ------------------------------------------------------ resolver operations
ShellCall(op, read, a, baseEnv, r) ==
    [op |-> op, seenBefore |-> settingsSeen,
     read |-> read, answers |-> a, baseEnv |-> baseEnv,
     ret |-> r.ret, thrown |-> r.thrown]

\* the answers a resolution reads, the others fixed to one value
ReadAnswers(settings, withPlatform) ==
    { a \in ShellAnswers :
        /\ (ConfiguredShell(settings) = <<>> => a.syncCheck = "valid")
        /\ (ConfiguredShell(settings) # <<>> /\ a.syncCheck # "invalid"
              => a.bridgeDefault = "ok")
        /\ (~withPlatform /\ a.bridgeDefault = "ok" => a.platform = "linux") }

setSettingsProvider ==
    /\ \E settings \in SettingsValues : settingsProvider' = <<settings>>
    /\ shellCall' = ShellCall("setSettingsProvider", <<>>, NoShellAnswers, <<>>,
                              [ret |-> <<>>, thrown |-> <<>>])
    /\ UNCHANGED <<settingsSeen, probe>>
    /\ UNCHANGED ptyVars

\* the registered provider starts returning other settings (the user edits
\* the plugin settings); the manager is not told
settingsChanged ==
    /\ settingsProvider # <<>>
    /\ \E settings \in SettingsValues \ {settingsProvider[1]} :
         settingsProvider' = <<settings>>
    /\ shellCall' = ShellCall("settingsChanged", <<>>, NoShellAnswers, <<>>,
                              [ret |-> <<>>, thrown |-> <<>>])
    /\ UNCHANGED <<settingsSeen, probe>>
    /\ UNCHANGED ptyVars

getDefaultShell ==
    /\ LET read == ReadSettings(settingsProvider, settingsSeen)
       IN \E a \in ReadAnswers(read, FALSE) :
            /\ shellCall' = ShellCall("getDefaultShell", read, a, <<>>,
                                      getDefaultShellRun(read, a))
            /\ settingsSeen' = read
    /\ UNCHANGED <<settingsProvider, probe>>
    /\ UNCHANGED ptyVars

getDefaultOptions ==
    /\ LET read == ReadSettings(settingsProvider, settingsSeen)
       IN \E a \in ReadAnswers(read, TRUE), baseEnv \in BaseEnvs :
            /\ shellCall' = ShellCall("getDefaultOptions", read, a, baseEnv,
                                      getDefaultOptionsRun(settingsProvider,
                                                           settingsSeen, a, baseEnv))
            /\ settingsSeen' = read
    /\ UNCHANGED <<settingsProvider, probe>>
    /\ UNCHANGED ptyVars

validateShellPathCall ==
    /\ \E check \in {"valid", "invalid", "throws"} :
         shellCall' = ShellCall("validateShellPath", <<>>,
                                [NoShellAnswers EXCEPT !.syncCheck = check], <<>>,
                                validateShellPathRun(check))
    /\ UNCHANGED <<settingsProvider, settingsSeen, probe>>
    /\ UNCHANGED ptyVars

\* ------------------------------------------------------- findAvailableShell
getAlternativeShells(plat) ==
    CASE plat = "win32" ->
           <<"powershell.exe", "cmd.exe",
             "C:\\Windows\\System32\\WindowsPowerShell\\v1.0\\powershell.exe",
             "C:\\Windows\\System32\\cmd.exe">>
      [] plat = "darwin" ->
           <<"/bin/zsh", "/bin/bash", "/bin/sh",
             "/usr/local/bin/zsh", "/usr/local/bin/bash">>
      [] plat = "linux" ->
           <<"/bin/bash", "/bin/sh", "/bin/zsh",
             "/usr/bin/bash", "/usr/bin/sh", "/usr/bin/zsh">>
      [] OTHER -> <<"/bin/sh">>

\* How one asynchronous check may settle.
ProbeOutcomes == {"valid", "invalid", "throws"}

NoProbe ==
    [pc |-> "idle", platform |-> "linux", alternatives |-> <<>>,
     issued |-> <<>>, inflight |-> {}, settled |-> <<>>,
     read |-> <<>>, answers |-> NoShellAnswers, ret |-> <<>>, thrown |-> <<>>]

\* faulty variant: the checks of all remaining candidates are started at once
IssueProbesAll(alts, i) == [j \in 1..(Len(alts) - i + 1) |-> i + j - 1]

\* one turn of the for...of loop awaits validateShell(alts[i]) and nothing else
IssueProbes(alts, i) == <<i>>

\* faulty variant: a check that raises ends findAvailableShell with its error
ProbeStepThrowPropagates(outcome) ==
    CASE outcome = "valid" -> "return"
      [] outcome = "throws" -> "throw"
      [] OTHER -> "continue"

\* if (isValid) return shell; catch (error) { continue; }
ProbeStep(outcome) == IF outcome = "valid" THEN "return" ELSE "continue"

\* the checks of candidates from i on are started, each stamped with the
\* number of checks settled so far
Issue(p, i) ==
    LET new == IssueProbes(p.alternatives, i)
    IN [p EXCEPT
          !.issued = @ \o [j \in 1..Len(new) |-> <<new[j], Len(p.settled)>>],
          !.inflight = @ \cup {new[j] : j \in 1..Len(new)}]

\* findAvailableShell() up to its first await
findAvailableShell ==
    /\ probe.pc # "awaiting"
    /\ \E plat \in ShellPlatforms :
         probe' = Issue([NoProbe EXCEPT !.pc = "awaiting", !.platform = plat,
                            !.alternatives = getAlternativeShells(plat)], 1)
    /\ UNCHANGED <<settingsProvider, settingsSeen, shellCall>>
    /\ UNCHANGED ptyVars

\* the awaited validateShell settles and findAvailableShell runs on to its
\* next await or to its end
validateShellSettled ==
    /\ probe.pc = "awaiting"
    /\ \E k \in probe.inflight, outcome \in ProbeOutcomes :
         LET p == [probe EXCEPT !.settled = Append(@, <<k, outcome>>),
                                !.inflight = @ \ {k}]
             step == ProbeStep(outcome)
             read == ReadSettings(settingsProvider, settingsSeen)
         IN CASE step = "return" ->
                   /\ probe' = [p EXCEPT !.pc = "done",
                                         !.ret = <<p.alternatives[k]>>]
                   /\ UNCHANGED settingsSeen
              [] step = "throw" ->
                   /\ probe' = [p EXCEPT !.pc = "done",
                                         !.thrown = <<PlainError("validateShell")>>]
                   /\ UNCHANGED settingsSeen
              [] step = "continue" /\ k < Len(p.alternatives) ->
                   /\ probe' = Issue(p, k + 1)
                   /\ UNCHANGED settingsSeen
              [] OTHER ->
                   /\ \E a \in ReadAnswers(read, FALSE) :
                        LET r == getDefaultShellRun(read, a)
                        IN probe' = [p EXCEPT !.pc = "done", !.read = read,
                                              !.answers = a, !.ret = r.ret,
                                              !.thrown = r.thrown]
                   /\ settingsSeen' = read
    /\ UNCHANGED <<settingsProvider, shellCall>>
    /\ UNCHANGED ptyVars

\* ---------------------------------------------------------------- the system
Init ==
    /\ activePTYs = <<>>
    /\ spawned = 0
    /\ listeners = [h \in Handles |-> {}]
    /\ proc = [h \in Handles |-> "none"]
    /\ kills = [h \in Handles |-> 0]
    /\ created = {}
    /\ destroyed = {}
    /\ reported = {}
    /\ returnedPTYs = {}
    /\ last = [Call("new", 0, Machine, <<>>) EXCEPT !.pre = <<>>]
    /\ settingsProvider = <<>>
    /\ settingsSeen = <<>>
    /\ shellCall = [op |-> "new", seenBefore |-> <<>>,
                    read |-> <<>>, answers |-> NoShellAnswers, baseEnv |-> <<>>,
                    ret |-> <<>>, thrown |-> <<>>]
    /\ probe = NoProbe

Next ==
    \/ createPTY
    \/ destroyPTY
    \/ resizeAllPTYs
    \/ cleanup
    \/ ptyExit
    \/ ptyError

Spec == Init /\ [][Next]_vars

\* the shell resolver and the environment builder on their own
NextShell ==
    \/ setSettingsProvider
    \/ settingsChanged
    \/ getDefaultShell
    \/ getDefaultOptions
    \/ validateShellPathCall

SpecShell == Init /\ [][NextShell]_vars

\* findAvailableShell, its checks settling one by one
NextFind ==
    \/ setSettingsProvider
    \/ findAvailableShell
    \/ validateShellSettled

SpecFind == Init /\ [][NextFind]_vars

\* ------------------------------------------------------------- properties
Did(op) == last.op = op

\* the handles the last operation made the given call on
CalledOn(call) ==
    { last.log[i][2] : i \in { j \in 1..Len(last.log) : last.log[j][1] = call } }

\* how often the last operation made the given call on the handle
CallCount(call, pty) ==
    Cardinality({ i \in 1..Len(last.log) : last.log[i] = <<call, pty>> })

Occurrences(s, pty) == Cardinality({ i \in 1..Len(s) : s[i] = pty })

ThrownType == IF last.thrown = <<>> THEN "none" ELSE last.thrown[1].type

\* C1: a handle is in the active set if and only if createPTY registered it
\* and since then neither destroyPTY/cleanup destroyed it nor an exit or
\* error notification reported it terminated.
C1_ActiveSetInvariant ==
    \A h \in Handles \cup ForeignHandles :
        SetHas(activePTYs, h)
            <=> (h \in created /\ h \notin destroyed /\ h \notin reported)

\* an exit notification has just removed a tracked handle while another
\* handle stays tracked
C1_Witness ==
    /\ Did("exit")
    /\ last.pty \in reported
    /\ SetHas(last.pre, last.pty)
    /\ ~SetHas(activePTYs, last.pty)
    /\ activePTYs # <<>>

C3_InvalidShell ==
    (/\ Did("createPTY")
     /\ last.answers.nodePty
     /\ last.answers.shellCheck # "valid")
    => /\ ThrownType = SHELL_NOT_FOUND
       /\ last.spawnReq = <<>>
       /\ CalledOn("spawn") = {}
       /\ activePTYs = last.pre
       /\ getActivePTYCount = Len(last.pre)

\* createPTY with a shell whose check raises, while a handle is tracked
C3_Witness ==
    /\ Did("createPTY")
    /\ last.answers.nodePty
    /\ last.answers.shellCheck = "throws"
    /\ last.pre # <<>>
    /\ ThrownType = SHELL_NOT_FOUND

\* C4: when getNodePTY() reports the capability as unavailable, createPTY
\* raises NODE_PTY_NOT_AVAILABLE without the shell check, the cwd check or
\* the spawn having been made, and the active set is unchanged.
C4_BridgeUnavailableFirst ==
    (Did("createPTY") /\ ~last.answers.nodePty)
    => /\ ThrownType = NODE_PTY_NOT_AVAILABLE
       /\ last.log = << <<"getNodePTY", 0>> >>
       /\ last.spawnReq = <<>>
       /\ activePTYs = last.pre

\* createPTY without the capability, while a handle is tracked
C4_Witness ==
    /\ Did("createPTY")
    /\ ~last.answers.nodePty
    /\ last.pre # <<>>
    /\ ThrownType = NODE_PTY_NOT_AVAILABLE

\* C5: when the cwd does not exist (valid shell, available bridge), createPTY
\* asks the bridge to spawn with cwd replaced by the home directory, or "/"
\* when HOME is unset or empty; it returns the handle unless the spawn or
\* the observer registration fails, and whatever it raises is then that
\* bridge failure, never an error of the cwd check.
C5_CwdFallback ==
    (/\ Did("createPTY")
     /\ last.answers.nodePty
     /\ last.answers.shellCheck = "valid"
     /\ ~last.answers.cwdExists)
    => /\ Len(last.spawnReq) = 1
       /\ last.spawnReq[1].options.cwd =
            (IF last.answers.home \in {<<>>, <<"">>}
             THEN "/" ELSE last.answers.home[1])
       /\ (last.thrown = <<>>
             <=> last.answers.spawn = "ok" /\ last.answers.attach = "ok")
       /\ (last.thrown # <<>> /\ last.answers.spawn = "typedError"
             => last.thrown[1] = SpawnFailure("typedError"))
       /\ (last.thrown # <<>> /\ last.answers.spawn # "typedError"
             => /\ ThrownType = PTY_CREATION_FAILED
                /\ last.thrown[1].originalError \in
                     {<<PlainError("spawn")>>, <<PlainError("on")>>})

\* a createPTY with a missing cwd and HOME set that returned a handle
C5_Witness ==
    /\ Did("createPTY")
    /\ ~last.answers.cwdExists
    /\ last.answers.home = <<"/home/user">>
    /\ last.thrown = <<>>
    /\ last.pty \in Handles
    /\ last.spawnReq[1].options.cwd = "/home/user"

\* C6: in every spawn request, useConpty is present (and true) if and only
\* if the platform the bridge reports is win32.
C6_ConptyOnlyOnWindows ==
    \A i \in 1..Len(last.spawnReq) :
        /\ ("useConpty" \in DOMAIN last.spawnReq[i].options)
             <=> last.answers.platform = "win32"
        /\ "useConpty" \in DOMAIN last.spawnReq[i].options
             => last.spawnReq[i].options.useConpty = TRUE

\* a spawn request made on a platform other than Windows
C6_Witness ==
    /\ Did("createPTY")
    /\ Len(last.spawnReq) = 1
    /\ last.answers.platform = "linux"
    /\ "useConpty" \notin DOMAIN last.spawnReq[1].options

\* C7 as claimed: no destroyPTY call raises, and a call on a handle that is
\* not tracked changes nothing and requests no termination.
C7_AsClaimed ==
    Did("destroyPTY")
    => /\ last.thrown = <<>>
       /\ (~SetHas(last.pre, last.pty)
             => activePTYs = last.pre /\ CalledOn("kill") = {})

\* C7 (amended): a destroyPTY call on a handle that is not tracked (a second
\* call, or a handle never created) does not raise, leaves the active set
\* as it is and requests no termination; a destroyed handle never is tracked
\* again and termination is requested at most once per handle; the only
\* destroyPTY call that raises is one on a tracked handle whose
\* removeAllListeners raises.
C7_DestroyIdempotent ==
    /\ (Did("destroyPTY") /\ ~SetHas(last.pre, last.pty)
          => /\ last.thrown = <<>>
             /\ activePTYs = last.pre
             /\ CalledOn("kill") = {}
             /\ CalledOn("removeAllListeners") = {})
    /\ (Did("destroyPTY") /\ last.thrown # <<>>
          => /\ SetHas(last.pre, last.pty)
             /\ last.pty \in last.releaseThrows
             /\ ThrownType = PTY_CREATION_FAILED)
    /\ \A h \in Handles :
          /\ kills[h] <= 1
          /\ (h \in destroyed => ~SetHas(activePTYs, h))

\* the second destroyPTY call on a handle whose termination was requested
C7_Witness ==
    /\ Did("destroyPTY")
    /\ last.pty \in Handles
    /\ ~SetHas(last.pre, last.pty)
    /\ last.pty \in destroyed
    /\ kills[last.pty] = 1

\* C8: cleanup ends with no handle tracked, has requested termination of
\* every handle that was tracked, and does not raise, whatever kill or
\* removeAllListeners do.
C8_CleanupDestroysAll ==
    Did("cleanup")
    => /\ getActivePTYCount = 0
       /\ CalledOn("kill") = SetOf(last.pre)
       /\ last.thrown = <<>>

\* C9: resizeAllPTYs requests the resize once on every handle tracked at the
\* call, also when the resize of some of them raises, and does not raise.
C9_ResizeIsolated ==
    Did("resizeAllPTYs")
    => /\ last.thrown = <<>>
       /\ CalledOn("resize") = SetOf(last.pre)
       /\ \A h \in SetOf(last.pre) : CallCount("resize", h) = 1
       /\ activePTYs = last.pre

\* a resizeAllPTYs in which the first of two tracked handles raises
C9_Witness ==
    /\ Did("resizeAllPTYs")
    /\ Len(last.pre) >= 2
    /\ last.pre[1] \in last.resizeThrows
    /\ last.pre[2] \notin last.resizeThrows
    /\ CallCount("resize", last.pre[2]) = 1

\* C10: when spawn raises a plain error, createPTY raises
\* PTY_CREATION_FAILED whose originalError is that error and whose context
\* holds the caller's options object (its cwd the home fallback when the
\* requested cwd did not exist, everything else as requested), and the
\* active set is unchanged.
C10_SpawnFailureWrapped ==
    (Did("createPTY") /\ last.answers.spawn = "error")
    => /\ Len(last.thrown) = 1
       /\ ThrownType = PTY_CREATION_FAILED
       /\ last.thrown[1].originalError = <<PlainError("spawn")>>
       /\ last.thrown[1].context = <<[options |-> last.options]>>
       /\ last.options =
            [last.requested EXCEPT
               !.cwd = IF last.answers.cwdExists THEN @
                       ELSE HomeFallback(last.answers.home)]
       /\ activePTYs = last.pre

\* a failing spawn while a handle is tracked
C10_Witness ==
    /\ Did("createPTY")
    /\ last.answers.spawn = "error"
    /\ last.pre # <<>>
    /\ ThrownType = PTY_CREATION_FAILED

\* C11: an error of createPTY's own validation steps reaches the caller as it
\* was thrown: NODE_PTY_NOT_AVAILABLE when the capability is missing,
\* SHELL_NOT_FOUND when the shell check fails, with no originalError and no
\* context added; PTY_CREATION_FAILED is raised only when both steps passed.
C11_TypedPassThrough ==
    Did("createPTY")
    => /\ (~last.answers.nodePty
             => last.thrown =
                  <<TerminalPluginError(NODE_PTY_NOT_AVAILABLE, <<>>, <<>>)>>)
       /\ (last.answers.nodePty /\ last.answers.shellCheck # "valid"
             => last.thrown =
                  <<TerminalPluginError(SHELL_NOT_FOUND, <<>>, <<>>)>>)
       /\ (ThrownType = PTY_CREATION_FAILED
             => last.answers.nodePty /\ last.answers.shellCheck = "valid")

\* createPTY with a shell the bridge's check rejects
C11_Witness ==
    /\ Did("createPTY")
    /\ last.answers.nodePty
    /\ last.answers.shellCheck = "invalid"
    /\ last.thrown = <<TerminalPluginError(SHELL_NOT_FOUND, <<>>, <<>>)>>

\* the position of a call in the last operation's log (0 when not made)
LogIndex(call, pty) ==
    IF \E i \in 1..Len(last.log) : last.log[i] = <<call, pty>>
    THEN CHOOSE i \in 1..Len(last.log) :
            /\ last.log[i] = <<call, pty>>
            /\ \A j \in 1..(i - 1) : last.log[j] # <<call, pty>>
    ELSE 0

\* C18: whenever kill is requested on a handle, the handle has been removed
\* from the active set before: it is not in the set at that moment, and it
\* is in no later state.
C18_RemovedBeforeKill ==
    /\ \A i \in 1..Len(last.atKill) :
          /\ ~SetHas(last.atKill[i][2], last.atKill[i][1])
          /\ LogIndex("delete", last.atKill[i][1]) > 0
          /\ LogIndex("delete", last.atKill[i][1])
               < LogIndex("kill", last.atKill[i][1])
    /\ \A h \in Handles : kills[h] > 0 => ~SetHas(activePTYs, h)

\* destroyPTY has requested termination of a tracked handle while another
\* handle stays tracked
C18_Witness ==
    /\ Did("destroyPTY")
    /\ SetHas(last.pre, last.pty)
    /\ Len(last.atKill) = 1
    /\ last.atKill[1][1] = last.pty
    /\ activePTYs # <<>>

\* C19: when pty.kill() raises in destroyPTY, the handle is removed all the
\* same, removeAllListeners is still called, and the kill failure does not
\* reach the caller: the call raises nothing unless removeAllListeners itself
\* raises, and then the observers are released.
C19_KillFailureSwallowed ==
    (Did("destroyPTY") /\ last.pty \in last.killThrows)
    => /\ ~SetHas(activePTYs, last.pty)
       /\ CallCount("removeAllListeners", last.pty) = 1
       /\ (last.pty \notin last.releaseThrows
             => last.thrown = <<>> /\ listeners[last.pty] = {})
       /\ (last.thrown # <<>>
             => last.thrown[1].originalError
                  = <<PlainError("removeAllListeners")>>)

\* destroyPTY on a tracked handle whose kill raises
C19_Witness ==
    /\ Did("destroyPTY")
    /\ last.pty \in last.killThrows
    /\ SetHas(last.pre, last.pty)
    /\ last.thrown = <<>>
    /\ listeners[last.pty] = {}

\* the handles an observer was invoked for in the last operation
Observed == CalledOn("observer:exit") \cup CalledOn("observer:error")

\* C20: an exit or error observer never raises; invoked for a handle that is
\* not tracked it leaves the active set as it is, invoked for a tracked
\* handle it removes that handle and keeps every other handle, in order.
C20_ObserversSafe ==
    (Did("exit") \/ Did("error"))
    => /\ last.thrown = <<>>
       /\ (~SetHas(last.pre, last.pty) => activePTYs = last.pre)
       /\ (Observed = {} => activePTYs = last.pre)
       /\ (Observed # {}
             => /\ Observed = {last.pty}
                /\ activePTYs = SelectSeq(last.pre, LAMBDA x : x # last.pty))

\* the exit observer runs for a handle that destroyPTY or cleanup has already
\* removed (its observers were not released), while another handle is tracked
C20_Witness ==
    /\ Did("exit")
    /\ Observed = {last.pty}
    /\ last.pty \in destroyed
    /\ ~SetHas(last.pre, last.pty)
    /\ activePTYs # <<>>

\* ---------------------------------------------------------------------------
\* C12: findAvailableShell probes the candidates of getAlternativeShells() one
\* at a time in list order: a candidate's check is started only when the
\* checks of all earlier candidates have settled, at most one check is in
\* flight, and a check that succeeds ends the call with that candidate, so
\* that no later candidate is probed.
C12_SequentialFirstValid ==
    /\ probe.pc # "idle"
       => probe.alternatives = getAlternativeShells(probe.platform)
    /\ Len(probe.issued) <= Len(probe.alternatives)
    /\ \A j \in 1..Len(probe.issued) : probe.issued[j] = <<j, j - 1>>
    /\ \A j \in 1..Len(probe.settled) : probe.settled[j][1] = j
    /\ Cardinality(probe.inflight) <= 1
    /\ probe.inflight = {j \in 1..Len(probe.issued) : j > Len(probe.settled)}
    /\ \A j \in 1..Len(probe.settled) :
          probe.settled[j][2] = "valid"
          => /\ j = Len(probe.issued)
             /\ probe.pc = "done"
             /\ probe.ret = <<probe.alternatives[j]>>
             /\ probe.thrown = <<>>

C12_Witness ==
    /\ probe.pc = "done"
    /\ Len(probe.alternatives) >= 3
    /\ Len(probe.issued) = 2
    /\ probe.settled[1][2] = "invalid"
    /\ probe.settled[2][2] = "valid"
    /\ probe.ret = <<probe.alternatives[2]>>

\* ---------------------------------------------------------------------------
\* C13: in findAvailableShell a check that raises counts as a check that
\* returns false: nothing is thrown for it and the next candidate is probed;
\* when no candidate validates, every candidate has been probed and the call
\* ends as getDefaultShell() ends.
C13_ProbeFailureSkipped ==
    /\ probe.thrown # <<>> => probe.thrown[1].cause # "validateShell"
    /\ \A j \in 1..Len(probe.settled) :
          (probe.settled[j][2] # "valid" /\ j < Len(probe.alternatives))
          => Len(probe.issued) >= j + 1
    /\ (/\ probe.pc = "done"
        /\ \A j \in 1..Len(probe.settled) : probe.settled[j][2] # "valid")
       => /\ Len(probe.settled) = Len(probe.alternatives)
          /\ LET fallback == getDefaultShellRun(probe.read, probe.answers)
             IN probe.ret = fallback.ret /\ probe.thrown = fallback.thrown

C13_Witness ==
    /\ probe.pc = "done"
    /\ Len(probe.settled) = Len(probe.alternatives)
    /\ Len(probe.settled) >= 3
    /\ probe.settled[1][2] = "throws"
    /\ probe.settled[2][2] = "invalid"
    /\ \A j \in 1..Len(probe.settled) : probe.settled[j][2] # "valid"
    /\ probe.thrown = <<>>
    /\ probe.ret = <<getSystemDefaultShell(probe.answers)>>

\* ---------------------------------------------------------------------------
\* C14 (as claimed): getDefaultShell() with a provider that yields a non-empty
\* configured shell which the synchronous check does not accept, by returning
\* false or by failing, returns the system default shell and raises nothing.
C14_FallsBackOnInvalid ==
    (/\ shellCall.op = "getDefaultShell"
     /\ ConfiguredShell(shellCall.read) # <<>>
     /\ shellCall.answers.syncCheck # "valid")
    => /\ shellCall.thrown = <<>>
       /\ shellCall.ret = <<getSystemDefaultShell(shellCall.answers)>>

\* ---------------------------------------------------------------------------
\* C15: validateShellPath never throws: it returns the result of the bridge's
\* synchronous check, and false whenever that check raises.
C15_ValidateNeverThrows ==
    shellCall.op = "validateShellPath"
    => /\ shellCall.thrown = <<>>
       /\ shellCall.ret = <<shellCall.answers.syncCheck = "valid">>

C15_Witness ==
    /\ shellCall.op = "validateShellPath"
    /\ shellCall.answers.syncCheck = "throws"
    /\ shellCall.thrown = <<>>
    /\ shellCall.ret = <<FALSE>>

C17_ProviderReadAfresh ==
    /\ shellCall.op \in {"getDefaultShell", "getDefaultOptions"}
       => shellCall.read = settingsProvider
    /\ shellCall.op = "getDefaultShell"
       => LET now == getDefaultShellRun(settingsProvider, shellCall.answers)
          IN shellCall.ret = now.ret /\ shellCall.thrown = now.thrown
    /\ shellCall.op = "getDefaultOptions"
       => LET now == getDefaultShellRun(settingsProvider, shellCall.answers)
          IN /\ shellCall.thrown = now.thrown
             /\ shellCall.thrown = <<>>
                => /\ shellCall.ret[1].shell = now.ret[1]
                   /\ shellCall.ret[1].args = ConfiguredArgs(settingsProvider)

C17_Witness ==
    /\ shellCall.op = "getDefaultShell"
    /\ ConfiguredShell(shellCall.seenBefore) # <<>>
    /\ ConfiguredShell(settingsProvider) # <<>>
    /\ ConfiguredShell(shellCall.seenBefore) # ConfiguredShell(settingsProvider)
    /\ shellCall.answers.syncCheck = "valid"
    /\ shellCall.ret = ConfiguredShell(settingsProvider)

\* ---------------------------------------------------------------------------
\* the handles the last operation made the given call on, in call order
CallsOf(call) ==
    LET made == SelectSeq(last.log, LAMBDA e : e[1] = call)
    IN [i \in 1..Len(made) |-> made[i][2]]

IsPrefix(s, t) ==
    /\ Len(s) <= Len(t)
    /\ \A i \in 1..Len(s) : s[i] = t[i]

\* handles are numbered as createPTY spawns them, and createPTY adds a handle
\* to the active set as soon as it is spawned: a sequence of handles is in
\* insertion order when its numbers increase
InInsertionOrder(s) == \A i, j \in 1..Len(s) : i < j => s[i] < s[j]

\* C21: the active set iterates in the order in which createPTY inserted the
\* handles; resizeAllPTYs requests the resizes in that order, and cleanup
\* requests the terminations in that order (of all tracked handles when it
\* does not raise, of the first ones when it raises).
C21_InsertionOrder ==
    /\ InInsertionOrder(activePTYs)
    /\ InInsertionOrder(last.pre)
    /\ Did("resizeAllPTYs") => CallsOf("resize") = last.pre
    /\ Did("cleanup")
       => /\ IsPrefix(CallsOf("kill"), last.pre)
          /\ last.thrown = <<>> => CallsOf("kill") = last.pre

\* a cleanup of two tracked handles that requested both terminations
C21_Witness ==
    /\ Did("cleanup")
    /\ Len(last.pre) >= 2
    /\ CallsOf("kill") = last.pre
    /\ last.pre[1] < last.pre[2]

\* ---------------------------------------------------------------------------
\* the handles spawned during the last operation
SpawnedInCall == CalledOn("add")

\* C22 (as claimed): whenever createPTY raises, the active set is the same as
\* before the call and no process spawned during the call is left running
\* without termination requested.
C22_FailedCreateLeavesNothing ==
    (Did("createPTY") /\ last.thrown # <<>>)
    => /\ activePTYs = last.pre
       /\ \A h \in SpawnedInCall : proc[h] = "running" => kills[h] > 0

\* ---------------------------------------------------------------------------
\* C23 (as claimed): every handle returned by createPTY whose process has not
\* exited is in the active set or has had termination requested.
C23_NoOrphan ==
    \A h \in returnedPTYs :
       proc[h] = "running" => SetHas(activePTYs, h) \/ kills[h] > 0

====
